---- MODULE Spec2Model ----
(***************************************************************************)
(* GUPPI RAW reader/writer (guppi.GuppiHandler): a model of the files on   *)
(* disk as byte sequences, of write_to_file, which produces them, and of   *)
(* the reading side: _read_header_entry, _header_entries, open_next_file,  *)
(* read_next_header, read_block, validate_header and the blocks()          *)
(* generator.  Bytes are integers 0..255, file positions are byte offsets. *)
(***************************************************************************)
EXTENDS Integers, Sequences, FiniteSets, TLC

VARIABLES
    session,    \* what this caller writes and does (fixed from the start)
    phase,      \* "write": files are being produced; "read": a handler exists; "dead": after __del__
    disk,       \* the files, in path order: a sequence of byte sequences
    written,    \* what write_to_file was given and where it put it, per call:
                \* [file, shape, bits, dio, samples, header, hstart, hlen, dstart, dlen, end]
    fault,      \* "none", or the kind of the bytes put in a file that write_to_file did not produce
    hd,         \* the handler: [paths, index, handle]  (_guppi_filepaths, _guppi_file_index, _guppi_file_handle)
    orphans,    \* file objects still open that the handler no longer references
    gen,        \* the blocks() generator of the current iteration (its locals and where it stands)
    out,        \* the (header, data) pairs the current iteration has yielded
    iter,       \* number of blocks() calls made on the handler
    ops,        \* number of file preparations made
    codec,      \* the 4-bit codec exercised on one byte: [byte, re, im, decoded]
    call        \* one call of a method on its own: [op, its arguments, done, its results]

vars == <<session, phase, disk, written, fault, ops, hd, orphans, gen, out, iter, codec, call>>

----------------------------------------------------------------------------
(* Bounds of the model *)

\* the largest offset _seek_align_directio is called at on its own
MaxOffset == 1100

\* write_to_file calls and other file preparations before the handler is built
MaxOps == 3
\* blocks() calls on one handler
MaxIterations == 2

(* Constants of the program *)

CardLen == 80
SectorLen == 512
WindowBack == 321
WindowLen == 240

----------------------------------------------------------------------------
(* Bytes, characters and Python's str helpers *)

Min(a, b) == IF a < b THEN a ELSE b

Pow2(w) == 2 ^ w

Repeat(b, n) == [i \in 1..n |-> b]

Prod(shape) == shape[1] * shape[2] * shape[3] * shape[4]

SP == 32
QUOTE == 39
STAR == 42
PLUS == 43
MINUS == 45
DOT == 46
EQ == 61
USCORE == 95

K_BLOCSIZE == <<66, 76, 79, 67, 83, 73, 90, 69>>
K_NBITS == <<78, 66, 73, 84, 83>>
K_NPOL == <<78, 80, 79, 76>>
K_NANTS == <<78, 65, 78, 84, 83>>
K_OBSNCHAN == <<79, 66, 83, 78, 67, 72, 65, 78>>
K_TELESCOP == <<84, 69, 76, 69, 83, 67, 79, 80>>
K_DIRECTIO == <<68, 73, 82, 69, 67, 84, 73, 79>>

\* "END" + " "*77
END_CARD == <<69, 78, 68>> \o Repeat(SP, CardLen - 3)

\* header values: an int, a float (kept as its text) or a str
IntVal(n) == [t |-> "int", n |-> n, s |-> <<>>]
FloatVal(s) == [t |-> "float", n |-> 0, s |-> s]
StrVal(s) == [t |-> "str", n |-> 0, s |-> s]

\* dict[key] = value: in place when the key is there, at the end otherwise
SetItem(d, k, v) ==
    IF \E i \in 1..Len(d) : d[i].k = k
    THEN [i \in 1..Len(d) |-> IF d[i].k = k THEN [k |-> k, v |-> v] ELSE d[i]]
    ELSE Append(d, [k |-> k, v |-> v])

HasKey(d, k) == \E i \in 1..Len(d) : d[i].k = k

GetItem(d, k, default) ==
    IF HasKey(d, k) THEN d[CHOOSE i \in 1..Len(d) : d[i].k = k].v ELSE default

----------------------------------------------------------------------------
(* The header class (guppi.header): the cards it serialises to and the     *)
(* geometry it derives from its entries.                                   *)

RECURSIVE DecDigits(_)
DecDigits(n) == IF n < 10 THEN <<48 + n>> ELSE DecDigits(n \div 10) \o <<48 + (n % 10)>>

\* str(n)
IntText(n) == IF n < 0 THEN <<MINUS>> \o DecDigits(-n) ELSE DecDigits(n)

ValueText(v) ==
    CASE v.t = "int" -> IntText(v.n)
      [] v.t = "float" -> v.s
      [] OTHER -> <<QUOTE>> \o v.s \o <<QUOTE>>

\* one 80-byte card: the key in 8 columns, "= ", the value, spaces
Card(k, v) ==
    LET head == k \o Repeat(SP, 8 - Len(k)) \o <<EQ, SP>> \o ValueText(v)
    IN  head \o Repeat(SP, CardLen - Len(head))

RECURSIVE CardsOf(_)
CardsOf(d) == IF d = <<>> THEN <<>> ELSE Card(d[1].k, d[1].v) \o CardsOf(Tail(d))

\* header.to_fits(): one card per entry, then the END card
to_fits(d) == CardsOf(d) \o END_CARD

\* the integer a header holds under a key (0 when the entry is no integer)
IntField(d, k, default) ==
    LET v == GetItem(d, k, IntVal(default)) IN IF v.t = "int" THEN v.n ELSE 0

blocksize(d) == IntField(d, K_BLOCSIZE, 0)
nof_bits(d) == IntField(d, K_NBITS, 0)
nof_polarizations(d) == IntField(d, K_NPOL, 0)
nof_antennas(d) == IntField(d, K_NANTS, 1)
observed_nof_channels(d) == IntField(d, K_OBSNCHAN, 0)
directio(d) == IntField(d, K_DIRECTIO, 0) # 0

\* FALSE when deriving the shape would divide by zero
ShapeDefined(d) ==
    /\ nof_bits(d) > 0
    /\ nof_antennas(d) > 0
    /\ (observed_nof_channels(d) \div nof_antennas(d)) * nof_polarizations(d) > 0

\* (antennas, channels per antenna, time samples, polarizations)
blockshape(d) ==
    LET samples == (blocksize(d) * 8) \div (nof_bits(d) * 2)
        A == nof_antennas(d)
        F == observed_nof_channels(d) \div A
        P == nof_polarizations(d)
    IN  <<A, F, samples \div (A * F * P), P>>

\* the telescope identifiers with a variant of their own, and the variant of each
T_ATA == <<65, 84, 65>>
T_COSMIC == <<67, 79, 83, 77, 73, 67>>
T_MEERKAT == <<77, 101, 101, 114, 75, 65, 84>>
Registry ==
    { <<T_ATA, "GuppiRawAtaHeader">>,
      <<T_COSMIC, "GuppiRawCosmicHeader">>,
      <<T_MEERKAT, "GuppiRawMeerkatHeader">> }

\* the telescope property: the string under TELESCOP, <<>> when there is none
telescope(d) ==
    IF HasKey(d, K_TELESCOP) /\ GetItem(d, K_TELESCOP, StrVal(<<>>)).t = "str"
    THEN GetItem(d, K_TELESCOP, StrVal(<<>>)).s
    ELSE <<>>

\* variant: no registry is consulted, the generic class is instantiated
auto_init_generic(d) == [variant |-> "GuppiRawHeader", entries |-> d]

\* the header object for a mapping: the registered variant of its telescope, else the generic one
auto_init_GuppiRawHeader(d) ==
    IF \E r \in Registry : r[1] = telescope(d)
    THEN [variant |-> (CHOOSE r \in Registry : r[1] = telescope(d))[2], entries |-> d]
    ELSE [variant |-> "GuppiRawHeader", entries |-> d]

----------------------------------------------------------------------------
(* The arrays handed to write_to_file and their bytes *)

\* two's complement: a signed value of w bits as an unsigned one, and back
ToUnsigned(x, w) == x % Pow2(w)
ToSigned(u, w) == IF u >= Pow2(w - 1) THEN u - Pow2(w) ELSE u

\* the bytes of one w-bit two's complement integer, least significant first
RECURSIVE LEBytes(_, _)
LEBytes(x, w) == IF w <= 0 THEN <<>> ELSE <<x % 256>> \o LEBytes(x \div 256, w - 8)

RECURSIVE Flatten(_)
Flatten(ss) == IF ss = <<>> THEN <<>> ELSE ss[1] \o Flatten(Tail(ss))

\* ndarray.tobytes() of an array of w-bit components
tobytes(values, w) == Flatten([i \in 1..Len(values) |-> LEBytes(values[i], w)])

\* the samples, as (re, im) pairs, interleaved into components
Interleave(samples) == Flatten([i \in 1..Len(samples) |-> <<samples[i][1], samples[i][2]>>])

\* tests: (re << 4) + (im & 0xF), kept in an int8
pack4(re, im) == ToSigned((re * 16 + (im % 16)) % 256, 8)

\* deterministic pseudo-random components of w bits, as the tests draw them
Sample(seed, i, w) ==
    LET r == ((seed * 7919 + i * 104729 + 17 * i * i) % Pow2(w - 2)) * 2 + (seed % 2)
    IN  IF i % 2 = 0 THEN r ELSE 0 - r - 1

SamplesOf(seed, n, w) == [i \in 1..n |-> <<Sample(seed, 2 * i - 1, w), Sample(seed, 2 * i, w)>>]

\* a complex array of (re, im) records of w-bit integers
ComplexBlock(shape, w, seed) ==
    LET s == SamplesOf(seed, Prod(shape), w)
    IN  [shape |-> shape, width |-> w, samples |-> s, values |-> Interleave(s)]

\* an int8 array whose elements each pack one 4-bit (re, im) pair
PackedBlock(shape, seed) ==
    LET s == SamplesOf(seed, Prod(shape), 4)
    IN  [shape |-> shape, width |-> 8, samples |-> s,
         values |-> [i \in 1..Len(s) |-> pack4(s[i][1], s[i][2])]]

----------------------------------------------------------------------------
(* GuppiHandler.write_to_file *)

\* variant: rounded down, (n // 512) * 512
PadTo_down(n, m) == (n \div m) * m

\* ((n + 511) // 512) * 512
PadTo(n, m) == ((n + (m - 1)) \div m) * m

\* variant: nof_antennas is not written back, the header keeps the one it had
write_header_stale(header, datablock) ==
    LET A == datablock.shape[1]
        F == datablock.shape[2]
        P == datablock.shape[4]
        nbytes == Len(tobytes(datablock.values, datablock.width))
        h1 == SetItem(header, K_OBSNCHAN, IntVal(A * F))
        h3 == SetItem(h1, K_NPOL, IntVal(P))
        h4 == SetItem(h3, K_BLOCSIZE, IntVal(nbytes))
    IN  SetItem(h4, K_NBITS, IntVal((nbytes * 8) \div (Prod(datablock.shape) * 2)))

\* the header fields write_to_file derives from the array
write_header(header, datablock) ==
    LET A == datablock.shape[1]
        F == datablock.shape[2]
        P == datablock.shape[4]
        nbytes == Len(tobytes(datablock.values, datablock.width))
        h1 == SetItem(header, K_OBSNCHAN, IntVal(A * F))
        h2 == SetItem(h1, K_NANTS, IntVal(A))
        h3 == SetItem(h2, K_NPOL, IntVal(P))
        h4 == SetItem(h3, K_BLOCSIZE, IntVal(nbytes))
    IN  SetItem(h4, K_NBITS, IntVal((nbytes * 8) \div (Prod(datablock.shape) * 2)))

\* lines 206-210: the header and, with directio, the "*" after it
header_region(h) ==
    to_fits(h) \o (IF directio(h)
                   THEN Repeat(STAR, PadTo(Len(to_fits(h)), SectorLen) - Len(to_fits(h)))
                   ELSE <<>>)

\* lines 212-215: the data and, with directio, the spaces after it
data_region(h, data) ==
    data \o (IF directio(h) THEN Repeat(SP, PadTo(Len(data), SectorLen) - Len(data)) ELSE <<>>)

\* the bytes one call puts in the file
write_bytes(header, datablock) ==
    header_region(write_header(header, datablock))
        \o data_region(write_header(header, datablock), tobytes(datablock.values, datablock.width))

\* the file after the call: "wb" truncates, "ab" appends
write_to_file(old, header, datablock, file_open_mode) ==
    (IF file_open_mode = "wb" THEN <<>> ELSE old) \o write_bytes(header, datablock)

----------------------------------------------------------------------------
(* Python's bytes.decode(), str.strip(), int() and float() *)

IsCont(b) == b >= 128 /\ b <= 191

\* number of bytes of the UTF-8 sequence a byte starts, 0 when it starts none
SeqLen(b) ==
    CASE b < 128 -> 1
      [] b >= 194 /\ b <= 223 -> 2
      [] b >= 224 /\ b <= 239 -> 3
      [] b >= 240 /\ b <= 244 -> 4
      [] OTHER -> 0

CodePoint(bs, i, n) ==
    CASE n = 1 -> bs[i]
      [] n = 2 -> (bs[i] - 192) * 64 + (bs[i + 1] - 128)
      [] n = 3 -> (bs[i] - 224) * 4096 + (bs[i + 1] - 128) * 64 + (bs[i + 2] - 128)
      [] OTHER -> (bs[i] - 240) * 262144 + (bs[i + 1] - 128) * 4096
                    + (bs[i + 2] - 128) * 64 + (bs[i + 3] - 128)

\* UTF-8 decoding from index i on: [ok, cps]; ok is FALSE for UnicodeDecodeError
RECURSIVE decode_from(_, _)
decode_from(bs, i) ==
    IF i > Len(bs) THEN [ok |-> TRUE, cps |-> <<>>]
    ELSE LET n == SeqLen(bs[i])
             valid == /\ n > 0
                      /\ i + n - 1 <= Len(bs)
                      /\ \A j \in 1..(n - 1) : IsCont(bs[i + j])
                      /\ (bs[i] = 224 => bs[i + 1] >= 160)
                      /\ (bs[i] = 237 => bs[i + 1] <= 159)
                      /\ (bs[i] = 240 => bs[i + 1] >= 144)
                      /\ (bs[i] = 244 => bs[i + 1] <= 143)
         IN  IF ~valid THEN [ok |-> FALSE, cps |-> <<>>]
             ELSE LET rest == decode_from(bs, i + n)
                  IN  [ok |-> rest.ok, cps |-> <<CodePoint(bs, i, n)>> \o rest.cps]

\* bytes.decode(): ASCII bytes are their own characters
decode(bs) ==
    IF \A i \in 1..Len(bs) : bs[i] < 128 THEN [ok |-> TRUE, cps |-> bs] ELSE decode_from(bs, 1)

\* the characters str.strip() removes
WhiteSpace == {9, 10, 11, 12, 13, 28, 29, 30, 31, 32, 133, 160, 5760, 8232, 8233, 8239, 8287, 12288}
                \cup (8192..8202)

\* index of the first character from i upwards that is no white space
RECURSIVE LStrip(_, _)
LStrip(s, i) == IF i <= Len(s) /\ s[i] \in WhiteSpace THEN LStrip(s, i + 1) ELSE i

\* index of the last character from j downwards that is no white space
RECURSIVE RStrip(_, _)
RStrip(s, j) == IF j >= 1 /\ s[j] \in WhiteSpace THEN RStrip(s, j - 1) ELSE j

strip(s) == SubSeq(s, LStrip(s, 1), RStrip(s, Len(s)))

IsDigit(c) == c >= 48 /\ c <= 57

\* digits, single underscores allowed between two digits
DigitRun(s) ==
    /\ s # <<>>
    /\ \A i \in 1..Len(s) :
         \/ IsDigit(s[i])
         \/ s[i] = USCORE /\ i > 1 /\ i < Len(s) /\ IsDigit(s[i - 1]) /\ IsDigit(s[i + 1])

Unsigned(s) == IF s # <<>> /\ s[1] \in {PLUS, MINUS} THEN Tail(s) ELSE s

RECURSIVE DigitsValue(_, _)
DigitsValue(s, acc) ==
    IF s = <<>> THEN acc
    ELSE DigitsValue(Tail(s), IF s[1] = USCORE THEN acc ELSE acc * 10 + (s[1] - 48))

\* int(value) does not raise
IsInt(s) == DigitRun(Unsigned(s))

IntOf(s) ==
    LET n == DigitsValue(Unsigned(s), 0) IN IF s[1] = MINUS THEN 0 - n ELSE n

\* index of the first c in s from i upwards, 0 when there is none
RECURSIVE IndexFrom(_, _, _)
IndexFrom(s, c, i) == IF i > Len(s) THEN 0 ELSE IF s[i] = c THEN i ELSE IndexFrom(s, c, i + 1)

FirstIndex(s, c) == IndexFrom(s, c, 1)

Lower(c) == IF c >= 65 /\ c <= 90 THEN c + 32 ELSE c

\* "inf", "infinity", "nan" in lower case
FloatWords == {<<105, 110, 102>>, <<105, 110, 102, 105, 110, 105, 116, 121>>, <<110, 97, 110>>}

\* digits [. [digits]] or . digits
IsMantissa(m) ==
    LET d == FirstIndex(m, DOT)
        ip == SubSeq(m, 1, d - 1)
        fp == SubSeq(m, d + 1, Len(m))
    IN  IF d = 0 THEN DigitRun(m)
        ELSE /\ ip = <<>> \/ DigitRun(ip)
             /\ fp = <<>> \/ DigitRun(fp)
             /\ ip # <<>> \/ fp # <<>>

\* float(value) does not raise
IsFloat(s) ==
    LET u == Unsigned(s)
        low == [i \in 1..Len(u) |-> Lower(u[i])]
        e == FirstIndex(low, 101)
    IN  \/ low \in FloatWords
        \/ e = 0 /\ IsMantissa(u)
        \/ e > 0 /\ IsMantissa(SubSeq(u, 1, e - 1)) /\ DigitRun(Unsigned(SubSeq(u, e + 1, Len(u))))

----------------------------------------------------------------------------
(* Exceptions: the kind and the source line that raises it *)

NoExc == [exc |-> "none", at |-> 0]
Raise(kind, line) == [exc |-> kind, at |-> line]

(* The file handle: None, or an open or closed file object with a position *)

NoneHandle == [some |-> FALSE, file |-> 0, pos |-> 0, open |-> FALSE]
Opened(i) == [some |-> TRUE, file |-> i, pos |-> 0, open |-> TRUE]

\* the bytes of the file a handle is on
Bytes(files, handle) == files[handle.file]

\* file.read(n): the bytes from the position to at most n further on
read(f, pos, n) == SubSeq(f, pos + 1, Min(pos + n, Len(f)))

----------------------------------------------------------------------------
(* GuppiHandler._read_header_entry                                         *)
(* Results are records; an operator that goes on from a result takes it as *)
(* a parameter, so each call of the source is evaluated once.              *)

\* the except branch: tell(), seek(pos - 321), two reads of 240 bytes, RuntimeError
decode_fault(f, pos) ==
    IF pos - WindowBack < 0
    THEN [exc |-> "OSError", at |-> 55, entry |-> <<>>, pos |-> pos]
    ELSE [exc |-> "RuntimeError", at |-> 64, entry |-> <<>>,
          pos |-> Min(Len(f), Min(Len(f), pos - WindowBack + WindowLen) + WindowLen)]

\* what becomes of the bytes read, the position being behind them
entry_of(f, pos, d) ==
    IF ~d.ok THEN decode_fault(f, pos)
    ELSE IF Len(d.cps) = 0 THEN [exc |-> "EOFError", at |-> 49, entry |-> <<>>, pos |-> pos]
    ELSE IF Len(d.cps) < CardLen THEN [exc |-> "ValueError", at |-> 51, entry |-> <<>>, pos |-> pos]
    ELSE [exc |-> "none", at |-> 0, entry |-> d.cps, pos |-> pos]

\* [exc, at, entry, pos]: the 80 characters of one card, or what the read raises
_read_header_entry(f, pos) ==
    entry_of(f, pos + Len(read(f, pos, CardLen)), decode(read(f, pos, CardLen)))

(* GuppiHandler._header_entries: one card to (key, value) *)

\* int(value), else float(value), else the quoted string: [exc, at, key, value]
parse_value(key, value) ==
    IF IsInt(value) THEN [exc |-> "none", at |-> 0, key |-> key, value |-> IntVal(IntOf(value))]
    ELSE IF IsFloat(value) THEN [exc |-> "none", at |-> 0, key |-> key, value |-> FloatVal(value)]
    ELSE IF value = <<>> THEN [exc |-> "IndexError", at |-> 80, key |-> key, value |-> IntVal(0)]
    ELSE IF value[1] = QUOTE /\ value[Len(value)] = QUOTE
    THEN [exc |-> "none", at |-> 0, key |-> key, value |-> StrVal(strip(SubSeq(value, 2, Len(value) - 1)))]
    ELSE [exc |-> "AssertionError", at |-> 80, key |-> key, value |-> IntVal(0)]

\* header_entry.split("=", 1), q being the index of the first "="
split_entry(header_entry, q) ==
    IF q = 0 THEN [exc |-> "ValueError", at |-> 72, key |-> <<>>, value |-> IntVal(0)]
    ELSE parse_value(strip(SubSeq(header_entry, 1, q - 1)),
                     strip(SubSeq(header_entry, q + 1, Len(header_entry))))

parse_entry(header_entry) == split_entry(header_entry, FirstIndex(header_entry, EQ))

\* the parsed card c, read up to position pos
parsed_entry(c, pos) ==
    [exc |-> c.exc, at |-> c.at, stop |-> FALSE, key |-> c.key, value |-> c.value, pos |-> pos]

\* what the generator does with the card read
entry_step(r) ==
    IF r.exc # "none"
    THEN [exc |-> r.exc, at |-> r.at, stop |-> FALSE, key |-> <<>>, value |-> IntVal(0), pos |-> r.pos]
    ELSE IF r.entry = END_CARD
    THEN [exc |-> "none", at |-> 0, stop |-> TRUE, key |-> <<>>, value |-> IntVal(0), pos |-> r.pos]
    ELSE parsed_entry(parse_entry(r.entry), r.pos)

\* the generator's next(): [exc, at, stop, key, value, pos]; stop is StopIteration (the END card)
next_entry(f, pos) == entry_step(_read_header_entry(f, pos))

\* for key, value in entry_iter: header_entries[key] = value   -> [exc, at, entries, pos]
RECURSIVE collect_entries(_, _, _)
collect_step(f, entries, e) ==
    IF e.exc # "none" THEN [exc |-> e.exc, at |-> e.at, entries |-> entries, pos |-> e.pos]
    ELSE IF e.stop THEN [exc |-> "none", at |-> 0, entries |-> entries, pos |-> e.pos]
    ELSE collect_entries(f, e.pos, SetItem(entries, e.key, e.value))

collect_entries(f, pos, entries) == collect_step(f, entries, next_entry(f, pos))

----------------------------------------------------------------------------
(* GuppiHandler: the handler is [paths, index, handle]; paths[i] names     *)
(* the file disk[paths[i]], index counts from 0 as in the source.          *)

\* variant: the remainder is not tested, an aligned position moves on by a sector
_seek_align_always(pos) == pos + (SectorLen - (pos % SectorLen))

\* the position _seek_align_directio leaves
_seek_align_directio(pos) ==
    IF pos % SectorLen = 0 THEN pos ELSE pos + (SectorLen - (pos % SectorLen))

\* variant: the index advanced by two, one file passed over
close_and_skip(h) == [h EXCEPT !.handle.open = FALSE, !.index = h.index + 2]

\* self._guppi_file_handle.close(); self._guppi_file_index += 1
close_and_step(h) == [h EXCEPT !.handle.open = FALSE, !.index = h.index + 1]

\* variant: the first path is opened whatever the index
open_current_first(h) ==
    IF h.index >= Len(h.paths)
    THEN [exc |-> "IndexError", at |-> 97, h |-> h]
    ELSE [exc |-> "none", at |-> 0, h |-> [h EXCEPT !.handle = Opened(h.paths[1])]]

\* open(self._guppi_filepaths[self._guppi_file_index], 'rb'): [exc, at, h]
open_current(h) ==
    IF h.index >= Len(h.paths)
    THEN [exc |-> "IndexError", at |-> 97, h |-> h]
    ELSE [exc |-> "none", at |-> 0, h |-> [h EXCEPT !.handle = Opened(h.paths[h.index + 1])]]

\* [exc, at, h]: close the current file if there is one and step the index, then open
open_next_file(h) == open_current(IF h.handle.some THEN close_and_step(h) ELSE h)

\* a read on the handle raises before any byte is read: None, or a closed file
HandleFault(h, line) ==
    IF ~h.handle.some THEN Raise("AttributeError", line)
    ELSE IF ~h.handle.open THEN Raise("ValueError", line)
    ELSE NoExc

SetPos(h, pos) == [h EXCEPT !.handle.pos = pos]

\* the result of read_next_header: rolled is TRUE when the call opened the next
\* file, eof is TRUE when it met zero bytes where a header starts
HeaderResult(x, h, header, rolled, eof) ==
    [exc |-> x.exc, at |-> x.at, h |-> h, header |-> header, rolled |-> rolled, eof |-> eof]

\* after the for loop: auto_init_GuppiRawHeader(header_entries) and the alignment
header_finish(h, rolled, c) ==
    IF c.exc # "none"
    THEN HeaderResult(c, SetPos(h, c.pos), <<>>, rolled,
                      rolled /\ c.exc = "EOFError" /\ c.entries = <<>>)
    ELSE HeaderResult(NoExc,
                      SetPos(h, IF directio(c.entries) THEN _seek_align_directio(c.pos) ELSE c.pos),
                      c.entries, rolled, rolled)

\* the except EOFError branch, o being what open_next_file gave
header_rolled(files, o) ==
    IF o.exc # "none" THEN HeaderResult(o, o.h, <<>>, FALSE, TRUE)
    ELSE header_finish(o.h, TRUE, collect_entries(Bytes(files, o.h.handle), 0, <<>>))

\* variant: a short first card is taken for the end of the file as well
header_first_lenient(h, files, first) ==
    IF first.exc = "EOFError" \/ (first.exc = "ValueError" /\ first.at = 51)
    THEN header_rolled(files, open_next_file(SetPos(h, first.pos)))
    ELSE IF first.exc # "none" THEN HeaderResult(first, SetPos(h, first.pos), <<>>, FALSE, FALSE)
    ELSE IF first.stop
    THEN HeaderResult(Raise("StopIteration", 103), SetPos(h, first.pos), <<>>, FALSE, FALSE)
    ELSE header_finish(h, FALSE,
                       collect_entries(Bytes(files, h.handle), first.pos,
                                       SetItem(<<>>, first.key, first.value)))

\* after the first next(entry_iter)
header_first(h, files, first) ==
    IF first.exc = "EOFError" THEN header_rolled(files, open_next_file(SetPos(h, first.pos)))
    ELSE IF first.exc # "none" THEN HeaderResult(first, SetPos(h, first.pos), <<>>, FALSE, FALSE)
    ELSE IF first.stop
    THEN HeaderResult(Raise("StopIteration", 103), SetPos(h, first.pos), <<>>, FALSE, FALSE)
    ELSE header_finish(h, FALSE,
                       collect_entries(Bytes(files, h.handle), first.pos,
                                       SetItem(<<>>, first.key, first.value)))

\* [exc, at, h, header, rolled, eof]
read_next_header(h, files) ==
    IF HandleFault(h, 47).exc # "none" THEN HeaderResult(HandleFault(h, 47), h, <<>>, FALSE, FALSE)
    ELSE header_first(h, files, next_entry(Bytes(files, h.handle), h.handle.pos))

\* NBITS_NUMPY_INTTYPE_MAP: the bit depths read_block has a sample type for
NBITS_NUMPY_INTTYPE_MAP == {4, 8}

\* variant: a logical shift in place of the arithmetic one
Shr4_logical(x) == (x % 256) \div 16

\* an int8 shifted right by 4, arithmetically
Shr4(x) == x \div 16

\* an int8 shifted left by 4, kept in an int8
Shl4(x) == ToSigned((x * 16) % 256, 8)

\* the two 4-bit samples of one byte: gr_block[0::2] >> 4 and gr_block[1::2] << 4 >> 4
unpack4(x) == <<Shr4(x), Shr4(Shl4(x))>>

\* variant: the bytes taken as unsigned, numpy.uint8 in place of numpy.int8
as_int8_unsigned(raw) == raw

\* numpy.fromfile(dtype=int8): each byte as a signed value
as_int8(raw) == [i \in 1..Len(raw) |-> ToSigned(raw[i], 8)]

\* the components of a block of nof_bits bits from its int8 elements
components(int8, bits) ==
    IF bits = 4 THEN Flatten([i \in 1..Len(int8) |-> unpack4(int8[i])]) ELSE int8

\* view(viewtype): consecutive components as (re, im)
pairs(c) == [i \in 1..(Len(c) \div 2) |-> <<c[2 * i - 1], c[2 * i]>>]

\* astype, view and reshape of the components c, the handle being past the block
block_of(h, gr_header, c) ==
    IF Len(c) % 2 # 0 THEN [exc |-> "ValueError", at |-> 140, h |-> h, data |-> <<>>]
    ELSE IF ~ShapeDefined(gr_header) THEN [exc |-> "ZeroDivisionError", at |-> 142, h |-> h, data |-> <<>>]
    ELSE IF Prod(blockshape(gr_header)) # Len(c) \div 2
    THEN [exc |-> "ValueError", at |-> 142, h |-> h, data |-> <<>>]
    ELSE [exc |-> "none", at |-> 0, h |-> h, data |-> pairs(c)]

\* after numpy.fromfile gave raw: the alignment, then the decoding
block_read(h, gr_header, raw) ==
    block_of(SetPos(h, IF directio(gr_header)
                       THEN _seek_align_directio(h.handle.pos + Len(raw))
                       ELSE h.handle.pos + Len(raw)),
             gr_header, components(as_int8(raw), nof_bits(gr_header)))

\* [exc, at, h, data]
read_block(h, gr_header, files) ==
    IF nof_bits(gr_header) \notin NBITS_NUMPY_INTTYPE_MAP
    THEN [exc |-> "KeyError", at |-> 127, h |-> h, data |-> <<>>]
    ELSE IF HandleFault(h, 125).exc # "none"
    THEN [exc |-> HandleFault(h, 125).exc, at |-> 125, h |-> h, data |-> <<>>]
    ELSE block_read(h, gr_header, read(Bytes(files, h.handle), h.handle.pos, blocksize(gr_header)))

\* variant: the block is skipped, the padding after it is not
seek_past_block_unaligned(h, gr_header) ==
    IF HandleFault(h, 145).exc # "none" THEN [exc |-> HandleFault(h, 145).exc, at |-> 145, h |-> h]
    ELSE [exc |-> "none", at |-> 0, h |-> SetPos(h, h.handle.pos + blocksize(gr_header))]

\* [exc, at, h]
seek_past_block(h, gr_header) ==
    IF HandleFault(h, 145).exc # "none" THEN [exc |-> HandleFault(h, 145).exc, at |-> 145, h |-> h]
    ELSE [exc |-> "none", at |-> 0,
          h |-> SetPos(h, IF directio(gr_header)
                          THEN _seek_align_directio(h.handle.pos + blocksize(gr_header))
                          ELSE h.handle.pos + blocksize(gr_header))]

\* variant: every header accepted
validate_header_off(header) == NoExc

\* what validate_header raises
validate_header(header) ==
    IF nof_bits(header) \notin NBITS_NUMPY_INTTYPE_MAP THEN Raise("NotImplementedError", 184)
    ELSE IF nof_polarizations(header) \notin {1, 2} THEN Raise("NotImplementedError", 186)
    ELSE NoExc

----------------------------------------------------------------------------
(* GuppiHandler.blocks: the generator.  pc is "none" (no generator),       *)
(* "created" (called, body not started), "suspended" (at the yield),       *)
(* "done" (the loop broke), "raised" (an exception left the body) or       *)
(* "closed" (the caller stopped it at the yield).  ref is <<>> for None.   *)
(* nvalidate and nread count the validate_header and read_block calls;     *)
(* rolled, eof, hexc and hat tell what the last read_next_header call did   *)
(* and, when it raised, what and at which line.                            *)
(* hfile and hpos are the file and the offset it left the handle at.       *)

NoGen == [pc |-> "none", block_index |-> 0, ref |-> <<>>, exc |-> "none", at |-> 0,
          nvalidate |-> 0, nread |-> 0, rolled |-> FALSE, eof |-> FALSE, hexc |-> "none", hat |-> 0,
          hfile |-> 0, hpos |-> 0]

NewGen == [NoGen EXCEPT !.pc = "created"]

\* the body is left: [h, g, yield]
Leave(h, g, pc, x) ==
    [h |-> h, g |-> [g EXCEPT !.pc = pc, !.exc = x.exc, !.at = x.at], yield |-> <<>>]

\* variant: the comparison of line 166 dropped
shape_check_off(reference_block_shape, shape) == NoExc

\* what the comparison with the reference shape raises
shape_check(reference_block_shape, shape) ==
    IF reference_block_shape # shape THEN Raise("RuntimeError", 167) ELSE NoExc

\* variant: lines 150-151 left out, the index and the handle kept from before
blocks_resume(h) == open_next_file(h)

\* lines 150-152: [exc, at, h]
blocks_start(h) == open_next_file([h EXCEPT !.index = 0, !.handle = NoneHandle])

\* the yield of (header, read_block(header)), b being what read_block gave
blocks_yield(g, header, b) ==
    IF b.exc # "none" THEN Leave(b.h, g, "raised", b)
    ELSE [h |-> b.h, g |-> [g EXCEPT !.pc = "suspended"],
          yield |-> <<[header |-> header, shape |-> blockshape(header), data |-> b.data]>>]

\* lines 163-167 on the first header: validate it, keep its shape
blocks_first(g, files, r) ==
    IF validate_header(r.header).exc # "none"
    THEN Leave(r.h, [g EXCEPT !.nvalidate = @ + 1], "raised", validate_header(r.header))
    ELSE IF ~ShapeDefined(r.header)
    THEN Leave(r.h, [g EXCEPT !.nvalidate = @ + 1], "raised", Raise("ZeroDivisionError", 165))
    ELSE blocks_yield([g EXCEPT !.nvalidate = @ + 1, !.nread = @ + 1, !.ref = blockshape(r.header)],
                      r.header, read_block(r.h, r.header, files))

\* lines 163-167 on a later header: compare its shape
blocks_later(g, files, r) ==
    IF ~ShapeDefined(r.header) THEN Leave(r.h, g, "raised", Raise("ZeroDivisionError", 166))
    ELSE IF shape_check(g.ref, blockshape(r.header)).exc # "none"
    THEN Leave(r.h, g, "raised", shape_check(g.ref, blockshape(r.header)))
    ELSE blocks_yield([g EXCEPT !.nread = @ + 1], r.header, read_block(r.h, r.header, files))

\* the loop body after read_next_header gave r
blocks_header(g, files, r) ==
    IF r.exc = "IndexError" THEN Leave(r.h, g, "done", NoExc)
    ELSE IF r.exc = "StopIteration" THEN Leave(r.h, g, "raised", Raise("RuntimeError", 158))
    ELSE IF r.exc # "none" THEN Leave(r.h, g, "raised", r)
    ELSE IF g.ref = <<>> THEN blocks_first([g EXCEPT !.block_index = @ + 1], files, r)
    ELSE blocks_later([g EXCEPT !.block_index = @ + 1], files, r)

\* one turn of the while loop, to the yield or out of the body: [h, g, yield]
blocks_loop(h, g, files) ==
    blocks_header([g EXCEPT !.rolled = read_next_header(h, files).rolled,
                            !.eof = read_next_header(h, files).eof,
                            !.hexc = read_next_header(h, files).exc,
                            !.hat = read_next_header(h, files).at,
                            !.hfile = read_next_header(h, files).h.handle.file,
                            !.hpos = read_next_header(h, files).h.handle.pos],
                  files, read_next_header(h, files))

\* the first next(): o is what lines 150-152 gave
blocks_started(g, files, o) ==
    IF o.exc # "none" THEN Leave(o.h, g, "raised", Raise(o.exc, 152))
    ELSE blocks_loop(o.h, g, files)

\* next() on the generator: [h, g, yield]
blocks_next(h, g, files) ==
    IF g.pc = "created" THEN blocks_started(g, files, blocks_start(h)) ELSE blocks_loop(h, g, files)

\* __del__: the handle, when there is one, is closed
del(h) == IF h.handle.some THEN [h EXCEPT !.handle.open = FALSE] ELSE h

----------------------------------------------------------------------------
(* What the callers hand to write_to_file, and files from elsewhere *)

Shape1 == <<1, 2, 1, 2>>
Shape2 == <<2, 1, 2, 1>>
Shape3 == <<1, 1, 1, 3>>

\* GuppiRawHeader(TELESCOP='TEST'), with DIRECTIO set or not
BaseHeader(dio) ==
    LET t == <<[k |-> K_TELESCOP, v |-> StrVal(<<84, 69, 83, 84>>)]>>
    IN  IF dio THEN SetItem(t, K_DIRECTIO, IntVal(1)) ELSE t

\* what a caller writes: the header's DIRECTIO, the array's shape, the width of
\* its components, and whether each element packs two 4-bit components
Input(dio, shape, width, packed) == [dio |-> dio, shape |-> shape, width |-> width, packed |-> packed]

\* the array, its samples drawn at position seed of the caller's random stream
BlockOf(in, seed) ==
    IF in.packed THEN PackedBlock(in.shape, seed) ELSE ComplexBlock(in.shape, in.width, seed)

\* 8-bit complex samples, the tests' case; the same with DIRECTIO; another shape
In8 == Input(FALSE, Shape1, 8, FALSE)
In8Dio == Input(TRUE, Shape1, 8, FALSE)
In8Shape2 == Input(FALSE, Shape2, 8, FALSE)
\* 4-bit samples packed two to a byte, as the tests pack them
In4 == Input(FALSE, Shape1, 8, TRUE)
\* 16- and 32-bit complex samples
In16 == Input(FALSE, Shape1, 16, FALSE)
In32 == Input(FALSE, Shape1, 32, FALSE)
\* three polarizations
In8Pol3 == Input(FALSE, Shape3, 8, FALSE)

\* bytes no write_to_file call produced, by the fault they are
Crafted(kind) ==
    CASE kind = "empty_value" -> K_BLOCSIZE \o <<EQ>> \o Repeat(SP, CardLen - 9)
      [] kind = "bad_value" -> K_NBITS \o <<SP, SP, SP, EQ, SP, 56, 98>> \o Repeat(SP, CardLen - 12)
      [] kind = "short_card" -> SubSeq(Card(K_NBITS, IntVal(8)), 1, 30)
      [] kind = "lone_card" -> Card(K_NBITS, IntVal(8))
      [] kind = "non_ascii" -> K_NBITS \o <<SP, SP, SP, EQ, SP, 200>> \o Repeat(SP, CardLen - 11)
      [] OTHER -> to_fits(write_header(BaseHeader(FALSE), BlockOf(In8, 1))) \o <<1, 2, 3>>

CraftedKinds == {"empty_value", "bad_value", "short_card", "lone_card", "non_ascii", "short_data"}

\* what one caller does: the arrays it writes, whether the stem has empty files,
\* the faults its files end with, and whether it iterates a second time
Session(inputs, touch, faults, again) ==
    [inputs |-> inputs, touch |-> touch, faults |-> faults, again |-> again]

Sessions ==
    { Session({In8}, TRUE, {}, TRUE),
      Session({In8, In8Shape2}, FALSE, {}, FALSE),
      Session({In8, In8Dio}, FALSE, {}, FALSE),
      Session({In4}, FALSE, {}, FALSE),
      Session({In8, In16}, FALSE, {}, FALSE),
      Session({In32}, FALSE, {}, FALSE),
      Session({In8, In8Pol3}, FALSE, {}, FALSE),
      Session({In8}, TRUE, CraftedKinds, FALSE) }

----------------------------------------------------------------------------
(* The state machine *)

NoCodec == [re |-> 0, im |-> 0, raw |-> <<>>, decoded |-> <<>>]

\* no single call is under way
NoCall == [op |-> "none", done |-> FALSE]

Init ==
    /\ session \in Sessions
    /\ phase = "write"
    /\ disk = <<>>
    /\ written = <<>>
    /\ fault = "none"
    /\ ops = 0
    /\ hd = [paths |-> <<>>, index |-> 0, handle |-> NoneHandle]
    /\ orphans = 0
    /\ gen = NoGen
    /\ out = <<>>
    /\ iter = 0
    /\ codec = NoCodec
    /\ call = NoCall

\* GuppiHandler.write_to_file(path, header, datablock, mode): "wb" on the next
\* path of the stem, "ab" on the last one
WriteToFile ==
    /\ phase = "write" /\ ops < MaxOps
    /\ \E w \in session.inputs, mode \in {"wb", "ab"} :
         LET n == IF mode = "wb" THEN Len(disk) + 1 ELSE Len(disk)
             old == IF mode = "wb" THEN <<>> ELSE disk[n]
             block == BlockOf(w, Len(written) + 1)
             h == write_header(BaseHeader(w.dio), block)
         IN  /\ mode = "ab" => disk # <<>> /\ fault = "none"
             /\ disk' = [i \in 1..n |-> IF i = n
                                        THEN write_to_file(old, BaseHeader(w.dio), block, mode)
                                        ELSE disk[i]]
             /\ written' = Append(written, [file |-> n, shape |-> block.shape, bits |-> nof_bits(h),
                                            dio |-> directio(h), samples |-> block.samples,
                                            header |-> h, hstart |-> Len(old),
                                            hlen |-> Len(to_fits(h)),
                                            dstart |-> Len(old) + Len(header_region(h)),
                                            dlen |-> blocksize(h),
                                            end |-> Len(old) + Len(write_bytes(BaseHeader(w.dio), block))])
    /\ ops' = ops + 1
    /\ UNCHANGED <<session, phase, fault, hd, orphans, gen, out, iter, codec, call>>

\* a file of the stem that holds nothing
Touch ==
    /\ phase = "write" /\ fault = "none" /\ ops < MaxOps /\ session.touch
    /\ disk' = Append(disk, <<>>)
    /\ ops' = ops + 1
    /\ UNCHANGED <<session, phase, written, fault, hd, orphans, gen, out, iter, codec, call>>

\* the last file ends with bytes that are no block
Tamper ==
    /\ phase = "write" /\ fault = "none" /\ ops < MaxOps /\ disk # <<>>
    /\ \E kind \in session.faults :
         /\ disk' = [disk EXCEPT ![Len(disk)] = @ \o Crafted(kind)]
         /\ fault' = kind
    /\ ops' = ops + 1
    /\ UNCHANGED <<session, phase, written, hd, orphans, gen, out, iter, codec, call>>

\* GuppiHandler(paths): the files of the stem, in order
Construct ==
    /\ phase = "write"
    /\ phase' = "read"
    /\ hd' = [paths |-> [i \in 1..Len(disk) |-> i], index |-> 0, handle |-> NoneHandle]
    /\ UNCHANGED <<session, disk, written, fault, ops, orphans, gen, out, iter, codec, call>>

\* handler.blocks(): a new generator; the one before it is abandoned
CallBlocks ==
    /\ phase = "read" /\ iter < MaxIterations /\ gen.pc # "created"
    /\ iter > 0 => session.again
    /\ gen' = NewGen
    /\ out' = <<>>
    /\ iter' = iter + 1
    /\ UNCHANGED <<session, phase, disk, written, fault, ops, hd, orphans, codec, call>>

\* next(generator)
NextBlock ==
    /\ phase = "read" /\ gen.pc \in {"created", "suspended"}
    /\ \E r \in {blocks_next(hd, gen, disk)} :
         /\ hd' = r.h
         /\ gen' = r.g
         /\ out' = out \o r.yield
    /\ orphans' = IF gen.pc = "created" /\ hd.handle.some /\ hd.handle.open THEN orphans + 1 ELSE orphans
    /\ UNCHANGED <<session, phase, disk, written, fault, ops, iter, codec, call>>

\* the caller stops iterating: generator.close() at the yield
CloseEarly ==
    /\ phase = "read" /\ gen.pc = "suspended"
    /\ gen' = [gen EXCEPT !.pc = "closed"]
    /\ UNCHANGED <<session, phase, disk, written, fault, ops, hd, orphans, out, iter, codec, call>>

\* the runtime finalizes the file objects nothing references any more
Collect ==
    /\ orphans > 0
    /\ orphans' = 0
    /\ UNCHANGED <<session, phase, disk, written, fault, ops, hd, gen, out, iter, codec, call>>

\* GuppiHandler.__del__, once no generator holds the handler
Del ==
    /\ phase = "read" /\ gen.pc \notin {"created", "suspended"}
    /\ phase' = "dead"
    /\ hd' = del(hd)
    /\ UNCHANGED <<session, disk, written, fault, ops, orphans, gen, out, iter, codec, call>>

Next ==
    \/ WriteToFile
    \/ Touch
    \/ Tamper
    \/ Construct
    \/ CallBlocks
    \/ NextBlock
    \/ CloseEarly
    \/ Collect
    \/ Del

Spec == Init /\ [][Next]_vars

----------------------------------------------------------------------------
(* The 4-bit codec on its own: every pair (re, im) of [-8, 7] is packed as *)
(* the tests pack it, written as bytes and decoded as read_block decodes.  *)

Nibbles == (0 - 8)..7

InitCodec ==
    /\ session = Session({}, FALSE, {}, FALSE)
    /\ phase = "codec"
    /\ disk = <<>>
    /\ written = <<>>
    /\ fault = "none"
    /\ ops = 0
    /\ hd = [paths |-> <<>>, index |-> 0, handle |-> NoneHandle]
    /\ orphans = 0
    /\ gen = NoGen
    /\ out = <<>>
    /\ iter = 0
    /\ \E re \in Nibbles, im \in Nibbles : codec = [NoCodec EXCEPT !.re = re, !.im = im]
    /\ call = NoCall

\* the int8 array [pack(re, im), pack(im, re)] and its bytes
Pack ==
    /\ phase = "codec" /\ codec.raw = <<>>
    /\ codec' = [codec EXCEPT !.raw = tobytes(<<pack4(codec.re, codec.im), pack4(codec.im, codec.re)>>, 8)]
    /\ UNCHANGED <<session, phase, disk, written, fault, ops, hd, orphans, gen, out, iter, call>>

\* read_block's decoding of the bytes with nof_bits == 4
Unpack ==
    /\ phase = "codec" /\ codec.raw # <<>> /\ codec.decoded = <<>>
    /\ codec' = [codec EXCEPT !.decoded = components(as_int8(codec.raw), 4)]
    /\ UNCHANGED <<session, phase, disk, written, fault, ops, hd, orphans, gen, out, iter, call>>

NextCodec == Pack \/ Unpack

SpecCodec == InitCodec /\ [][NextCodec]_vars

----------------------------------------------------------------------------
(* Single calls: one method applied once to arguments drawn from the sets  *)
(* below, the results kept in call.                                        *)

\* the extents of an axis of the arrays handed to write_to_file on its own
Extents == 1..2

\* headers as a caller may hand them over: fresh, or left by an earlier write
UsedHeaders ==
    { BaseHeader(FALSE),
      write_header(BaseHeader(FALSE), BlockOf(In16, 1)),
      write_header(BaseHeader(TRUE), BlockOf(In8Pol3, 1)) }

\* the arrays: every shape over Extents, complex of 8, 16 and 32 bits and packed 4-bit
Arrays ==
    { Input(FALSE, <<a, f, t, p>>, w[1], w[2]) :
        a \in Extents, f \in Extents, t \in Extents, p \in Extents,
        w \in {<<8, FALSE>>, <<16, FALSE>>, <<32, FALSE>>, <<8, TRUE>>} }

\* the calls of write_to_file's header part
HeaderCalls ==
    { [op |-> "write_header", done |-> FALSE, header |-> h, in |-> in] :
        h \in UsedHeaders, in \in Arrays }

\* everything but call is as before any file is written
Idle ==
    /\ session = Session({}, FALSE, {}, FALSE)
    /\ disk = <<>>
    /\ written = <<>>
    /\ fault = "none"
    /\ ops = 0
    /\ hd = [paths |-> <<>>, index |-> 0, handle |-> NoneHandle]
    /\ orphans = 0
    /\ gen = NoGen
    /\ out = <<>>
    /\ iter = 0
    /\ codec = NoCodec

\* the mappings handed to auto_init_GuppiRawHeader: a telescope alone, none at
\* all, a telescope that is no string, and headers read from files
Telescopes == {T_ATA, T_COSMIC, T_MEERKAT, <<84, 69, 83, 84>>, <<97, 116, 97>>, <<65, 84, 65, 50>>}
Mappings ==
    {<<>>, SetItem(<<>>, K_TELESCOP, IntVal(7))}
        \cup {SetItem(<<>>, K_TELESCOP, StrVal(t)) : t \in Telescopes}
        \cup {SetItem(h, K_TELESCOP, StrVal(t)) : h \in UsedHeaders, t \in Telescopes}
DispatchCalls == {[op |-> "auto_init", done |-> FALSE, header |-> d] : d \in Mappings}

\* the offsets _seek_align_directio is called at
AlignCalls == {[op |-> "_seek_align_directio", done |-> FALSE, pos |-> p] : p \in 0..MaxOffset}

\* headers of blocks in files, with and without DIRECTIO, of 8 and of 4 bits
In4Dio == Input(TRUE, Shape1, 8, TRUE)
In8DioShape2 == Input(TRUE, Shape2, 8, FALSE)
BlockInputs == {In8, In8Dio, In8Shape2, In8DioShape2, In4, In4Dio}

\* the offsets a header or a data block starts at, and the bytes that follow a block
Starts == {0, 1, 504, 512, 640, 1024}
Tails == {0, 3}

\* a handler with one file, open at offset start
HandlerAt(start) == [paths |-> <<1>>, index |-> 0, handle |-> [Opened(1) EXCEPT !.pos = start]]

\* read_next_header on a file that holds a header from offset start on
HeaderReads ==
    { [op |-> "read_next_header", done |-> FALSE, in |-> in, start |-> start,
       file |-> Repeat(SP, start) \o to_fits(write_header(BaseHeader(in.dio), BlockOf(in, 1)))] :
        in \in BlockInputs, start \in Starts }

\* read_block and seek_past_block on a file that holds the whole data block from offset start on
BlockCalls ==
    { [op |-> "block", done |-> FALSE, in |-> in, start |-> start,
       header |-> write_header(BaseHeader(in.dio), BlockOf(in, 1)),
       file |-> Repeat(SP, start) \o tobytes(BlockOf(in, 1).values, BlockOf(in, 1).width)
                    \o Repeat(SP, tail)] :
        in \in BlockInputs, start \in Starts, tail \in Tails }

InitCall ==
    /\ Idle
    /\ phase = "call"
    /\ call \in HeaderCalls \cup DispatchCalls \cup AlignCalls \cup HeaderReads \cup BlockCalls

\* lines 195-201 of write_to_file on the header and the array of the call
CallWriteHeader ==
    /\ phase = "call" /\ call.op = "write_header" /\ ~call.done
    /\ call' = [op |-> call.op, done |-> TRUE, header |-> call.header, in |-> call.in,
                result |-> write_header(call.header, BlockOf(call.in, 1))]
    /\ UNCHANGED <<session, phase, disk, written, fault, ops, hd, orphans, gen, out, iter, codec>>

\* auto_init_GuppiRawHeader(header_entries), line 112 of read_next_header
CallAutoInit ==
    /\ phase = "call" /\ call.op = "auto_init" /\ ~call.done
    /\ call' = [op |-> call.op, done |-> TRUE, header |-> call.header,
                result |-> auto_init_GuppiRawHeader(call.header)]
    /\ UNCHANGED <<session, phase, disk, written, fault, ops, hd, orphans, gen, out, iter, codec>>

\* _seek_align_directio with the handle at call.pos
CallSeekAlign ==
    /\ phase = "call" /\ call.op = "_seek_align_directio" /\ ~call.done
    /\ call' = [op |-> call.op, done |-> TRUE, pos |-> call.pos,
                result |-> _seek_align_directio(call.pos)]
    /\ UNCHANGED <<session, phase, disk, written, fault, ops, hd, orphans, gen, out, iter, codec>>

\* read_next_header with the handle at the start of the header
CallReadNextHeader ==
    /\ phase = "call" /\ call.op = "read_next_header" /\ ~call.done
    /\ \E r \in {read_next_header(HandlerAt(call.start), <<call.file>>)} :
         call' = [op |-> call.op, done |-> TRUE, in |-> call.in, start |-> call.start,
                  file |-> call.file, exc |-> r.exc, header |-> r.header, h |-> r.h]
    /\ UNCHANGED <<session, phase, disk, written, fault, ops, hd, orphans, gen, out, iter, codec>>

\* read_block, and seek_past_block in its place, with the handle at the start of the block
CallBlock ==
    /\ phase = "call" /\ call.op = "block" /\ ~call.done
    /\ \E r \in {read_block(HandlerAt(call.start), call.header, <<call.file>>)},
          k \in {seek_past_block(HandlerAt(call.start), call.header)} :
         call' = [op |-> call.op, done |-> TRUE, in |-> call.in, start |-> call.start,
                  header |-> call.header, file |-> call.file,
                  read |-> [exc |-> r.exc, h |-> r.h], skip |-> [exc |-> k.exc, h |-> k.h]]
    /\ UNCHANGED <<session, phase, disk, written, fault, ops, hd, orphans, gen, out, iter, codec>>

NextCall ==
    \/ CallWriteHeader
    \/ CallAutoInit
    \/ CallSeekAlign
    \/ CallReadNextHeader
    \/ CallBlock

SpecCall == InitCall /\ [][NextCall]_vars

----------------------------------------------------------------------------
(* What the claims speak of *)

\* the iteration is over: the loop broke, or an exception left the generator
Ended == gen.pc \in {"done", "raised"}

WrittenSamples == [i \in 1..Len(written) |-> written[i].samples]
YieldedData == [i \in 1..Len(out) |-> out[i].data]

IsPrefix(a, b) == Len(a) <= Len(b) /\ \A i \in 1..Len(a) : a[i] = b[i]

\* every file of the stem holds at least one written block
EveryFileWritten == \A f \in 1..Len(disk) : \E i \in 1..Len(written) : written[i].file = f

\* the blocks 1..n were written with one header: one DIRECTIO setting
OneHeader(n) == \A i \in 1..n : written[i].dio = written[1].dio

\* the blocks 1..n are of one shape and one bit depth
OneShape(n) == \A i \in 1..n : written[i].shape = written[1].shape /\ written[i].bits = written[1].bits

\* block i is one validate_header accepts
Supported(i) == written[i].bits \in {4, 8} /\ written[i].shape[4] \in {1, 2}

\* the files are what write_to_file made of N >= 1 blocks of one shape, written with one header
CleanWrite ==
    /\ phase # "write" /\ fault = "none" /\ written # <<>>
    /\ EveryFileWritten /\ OneHeader(Len(written)) /\ OneShape(Len(written))

\* the pairs yielded so far are the first blocks written, and at the end all of them
ReadBack ==
    /\ IsPrefix(YieldedData, WrittenSamples)
    /\ \A i \in 1..Len(out) : out[i].shape = written[i].shape
    /\ Ended => gen.pc = "done" /\ Len(out) = Len(written)

\* the iteration ends on the first block, with the unsupported-value error
Unsupported == out = <<>> /\ (Ended => gen.pc = "raised" /\ gen.exc = "NotImplementedError")

(* C1, as claimed: blocks of any shape and of component bit depth 8, 16 or 32,
   written by write_to_file over one or several files, are read back by
   blocks() with identical samples in identical order. *)
C1_RoundTripAllDepths ==
    CleanWrite /\ written[1].bits \in {8, 16, 32} => ReadBack

(* C1, amended: the round trip holds for component bit depth 8 and one or two
   polarizations; for bit depths 16 and 32, and for other polarization
   counts, the iteration ends on the first block with NotImplementedError
   and yields nothing. *)
C1_RoundTrip8 ==
    /\ CleanWrite /\ written[1].bits = 8 /\ written[1].shape[4] \in {1, 2} => ReadBack
    /\ CleanWrite /\ (written[1].bits \in {16, 32} \/ written[1].shape[4] \notin {1, 2}) => Unsupported

\* three 8-bit blocks in two files have been read back, the second file after a rollover
C1_Witness ==
    /\ CleanWrite /\ written[1].bits = 8 /\ Len(written) = 3 /\ Len(disk) = 2
    /\ gen.pc = "done" /\ YieldedData = WrittenSamples

(* C2: when the files hold N well-formed blocks of one blockshape, every file
   at least one, blocks() yields exactly N pairs, the i-th being the i-th
   block in file order and byte order with the written blockshape, and then
   stops: no pair is yielded twice, skipped or added. *)
C2_ExactCountAndOrder ==
    CleanWrite /\ Supported(1) =>
        /\ Len(out) <= Len(written)
        /\ \A i \in 1..Len(out) : out[i].shape = written[i].shape /\ out[i].data = written[i].samples
        /\ gen.block_index = Len(out) + (IF gen.pc = "raised" THEN 1 ELSE 0)
        /\ Ended => gen.pc = "done" /\ Len(out) = Len(written)

\* three blocks in three files have been yielded and the iteration has stopped
C2_Witness ==
    /\ CleanWrite /\ Supported(1) /\ Len(written) = 3 /\ Len(disk) = 3
    /\ gen.pc = "done" /\ Len(out) = 3

(* C3: a byte packing (re, im), re and im in [-8, 7], as (re << 4) + (im & 0xF)
   is decoded with nof_bits == 4 into exactly (re, im): the sign-extended high
   nibble, then the sign-extended low nibble; the decoded elements are twice
   the bytes. *)
C3_NibbleRoundTrip ==
    phase = "codec" /\ codec.decoded # <<>> =>
        /\ codec.decoded = <<codec.re, codec.im, codec.im, codec.re>>
        /\ Len(codec.decoded) = 2 * Len(codec.raw)
        /\ codec.decoded[1] = ToSigned(codec.raw[1], 8) \div 16
        /\ codec.decoded[2] = ToSigned((ToSigned(codec.raw[1], 8) * 16) % 256, 8) \div 16

\* a pair of two negative nibbles has been packed and decoded
C3_Witness ==
    phase = "codec" /\ codec.re = 0 - 8 /\ codec.im = 0 - 1 /\ Len(codec.decoded) = 4

\* the blocks whose shape differs from the first block's
Divergent == {k \in 2..Len(written) : written[k].shape # written[1].shape}

\* the first of them
FirstDivergent == CHOOSE k \in Divergent : \A j \in Divergent : k <= j

\* block k >= 2 is the first of another shape; the blocks before it are well formed
DivergesAt(k) ==
    /\ phase # "write" /\ fault = "none" /\ EveryFileWritten
    /\ Divergent # {} /\ k = FirstDivergent
    /\ OneHeader(k) /\ \A i \in 1..(k - 1) : Supported(i) /\ written[i].bits = written[1].bits

(* C4: when block k >= 2 is the first whose blockshape differs from the first
   block's, blocks() raises the inconsistent-shape error after exactly k - 1
   yielded pairs; block k is never yielded and read_block is never called
   for it. *)
C4_ShapeFault ==
    \A k \in 2..Len(written) : DivergesAt(k) =>
        /\ Len(out) <= k - 1 /\ gen.nread <= k - 1
        /\ Ended => /\ gen.pc = "raised" /\ gen.exc = "RuntimeError" /\ gen.at = 167
                    /\ Len(out) = k - 1 /\ gen.nread = k - 1 /\ gen.block_index = k

\* the third block was the divergent one and the error came after two pairs
C4_Witness ==
    /\ DivergesAt(3) /\ gen.pc = "raised" /\ gen.exc = "RuntimeError" /\ gen.at = 167
    /\ Len(out) = 2

\* read_next_header opened the next file and that file is not the last of the list
RolledWithMoreFiles ==
    /\ phase # "write" /\ fault = "none"
    /\ gen.rolled /\ hd.index < Len(hd.paths) - 1

(* C5, as claimed: when read_next_header meets zero bytes where a header
   starts and a further file remains, it opens the next file and returns
   that file's first header without raising, whatever valid block stream,
   an empty one included, the next file holds before the further files. *)
C5_TransparentRollover ==
    RolledWithMoreFiles => gen.hexc = "none"

\* no file remains: the list is empty, or the last file ended where a header starts
NoFileRemains ==
    /\ phase # "write" /\ fault = "none" /\ gen.pc \notin {"none", "created"}
    /\ \/ hd.paths = <<>>
       \/ gen.eof /\ hd.index >= Len(hd.paths) - 1

(* C6, as claimed: for every file list, the empty list included, once no file
   remains after a clean end of file at a header boundary the iteration
   ends normally and no exception reaches the caller. *)
C6_CleanTermination ==
    NoFileRemains => gen.pc # "raised"

(* C7, as claimed: a header or block fault (a card whose value is no integer,
   no float and no quoted string, an empty value included; a card of fewer
   than 80 bytes; zero bytes at a later card of a header; a data region
   shorter than blocksize) ends the iteration with an exception; the
   iteration never ends normally in response to the fault. *)
C7_FaultsPropagate ==
    fault \in {"empty_value", "bad_value", "short_card", "lone_card", "short_data"} => gen.pc # "done"

\* the handle the handler holds is open
HandleOpen == hd.handle.some /\ hd.handle.open

(* C8, as claimed: on every exit of a blocks() iteration (exhaustion, a
   validation failure, an inconsistent-shape or header fault, the caller
   stopping early) the handler has closed the open handle as part of that
   exit, before any finalization. *)
C8_ReleasedOnEveryExit ==
    phase = "read" /\ gen.pc \in {"done", "raised", "closed"} => ~HandleOpen

\* the file objects the instance opened that are open
OpenHandles == orphans + (IF HandleOpen THEN 1 ELSE 0)

(* C9, as claimed: in every reachable state of one handler, a second blocks()
   call after a partly consumed first one included, at most one file handle
   opened by the instance is open. *)
C9_SingleHandle == OpenHandles <= 1

(* C10: in a blocks() iteration validate_header is called exactly once, on the
   first header, before any pair is yielded; when the first header's
   nof_bits is outside {4, 8} or its nof_polarizations outside {1, 2} the
   iteration raises the unsupported-value error with zero pairs yielded;
   the headers of later blocks are not validated. *)
C10_ValidateOnce ==
    /\ gen.nvalidate = (IF gen.block_index >= 1 THEN 1 ELSE 0)
    /\ out # <<>> => gen.nvalidate = 1
    /\ gen.exc = "NotImplementedError" => gen.block_index = 1 /\ out = <<>>
    /\ phase # "write" /\ fault = "none" /\ EveryFileWritten /\ written # <<>> /\ ~Supported(1)
         => /\ out = <<>>
            /\ gen.block_index >= 1 => gen.pc = "raised" /\ gen.exc = "NotImplementedError"

\* a 16-bit block after an accepted 8-bit one of the same shape reached read_block unvalidated
C10_Witness ==
    /\ fault = "none" /\ Len(written) >= 2 /\ written[1].bits = 8 /\ written[2].bits = 16
    /\ gen.pc = "raised" /\ gen.exc = "KeyError" /\ gen.block_index = 2 /\ gen.nvalidate = 1

\* every block of file f was written with directio enabled
AllDirectio(f) == \A i \in 1..Len(written) : written[i].file = f => written[i].dio

\* the file block i was written to
FileOf(i) == disk[written[i].file]

\* block i lies in its file where write_to_file's offsets say
PlacedAt(i) ==
    /\ SubSeq(FileOf(i), written[i].hstart + 1, written[i].hstart + written[i].hlen)
         = to_fits(written[i].header)
    /\ Len(FileOf(i)) >= written[i].end
    /\ written[i].dstart + written[i].dlen <= written[i].end

(* C11: in a file produced by write_to_file calls that all had directio
   enabled, every header starts and every data block starts at a multiple
   of 512; the gap after a header holds "*" bytes and the gap after a data
   block holds spaces. *)
C11_AlignedOnWrite ==
    \A i \in 1..Len(written) : AllDirectio(written[i].file) =>
        /\ PlacedAt(i)
        /\ written[i].hstart % SectorLen = 0
        /\ written[i].dstart % SectorLen = 0
        /\ written[i].end % SectorLen = 0
        /\ \A p \in (written[i].hstart + written[i].hlen + 1)..written[i].dstart : FileOf(i)[p] = STAR
        /\ \A p \in (written[i].dstart + written[i].dlen + 1)..written[i].end : FileOf(i)[p] = SP

\* two directio blocks in one file, the second appended
C11_Witness ==
    /\ Len(written) = 2 /\ written[1].dio /\ written[2].dio
    /\ written[2].file = written[1].file /\ written[2].hstart > 0
    /\ written[2].dstart > written[2].hstart + written[2].hlen

\* the header a single write_header call produced
Produced == call.op = "write_header" /\ call.done

(* C12: the header write_to_file produces from an array of shape (A,F,T,P)
   satisfies product(blockshape) * nof_bits * 2 == blocksize * 8, with
   blockshape == (A,F,T,P), observed_nof_channels == A*F, nof_antennas == A
   and nof_polarizations == P, whatever the header held before. *)
C12_Geometry ==
    Produced =>
        /\ ShapeDefined(call.result)
        /\ Prod(blockshape(call.result)) * nof_bits(call.result) * 2 = blocksize(call.result) * 8
        /\ blockshape(call.result) = call.in.shape
        /\ observed_nof_channels(call.result) = call.in.shape[1] * call.in.shape[2]
        /\ nof_antennas(call.result) = call.in.shape[1]
        /\ nof_polarizations(call.result) = call.in.shape[4]
        /\ nof_bits(call.result) = (IF call.in.packed THEN 4 ELSE call.in.width)

\* a header that held three polarizations and 8 bits now describes a 16-bit array of two antennas
C12_Witness ==
    /\ Produced
    /\ nof_polarizations(call.header) = 3 /\ nof_bits(call.header) = 8
    /\ call.in.shape = <<2, 1, 2, 1>> /\ call.in.width = 16
    /\ nof_bits(call.result) = 16

\* the blocks written to file f, and where the last of them ends
BlocksIn(f) == {i \in 1..Len(written) : written[i].file = f}
FileEnd(f) ==
    IF BlocksIn(f) = {} THEN 0
    ELSE written[CHOOSE i \in BlocksIn(f) : \A j \in BlocksIn(f) : j <= i].end

\* file f holds bytes after its last block: a partial header or a partial block
Partial(f) == Len(disk[f]) > FileEnd(f)

\* how the read of each kind of partial content ends
PartialFaults ==
    [lone_card |-> {<<"EOFError", 49>>},
     short_card |-> {<<"ValueError", 51>>},
     short_data |-> {<<"ValueError", 140>>, <<"ValueError", 142>>}]

(* C13: read_next_header goes to the next file only on zero bytes at the
   first card of a header: a file that ends inside a header (zero bytes at
   a later card, or a card of 1 to 79 bytes) or inside a data block makes
   the read fail in that file, the handler never gets past it, every header
   returned is the header of one written block, cards of two files never
   combined, and read_block leaves the handle on the file its header came
   from. *)
C13_NeverSplit ==
    /\ \A i \in 1..Len(out) : out[i].header = written[i].header
    /\ gen.pc = "suspended" => hd.handle.file = gen.hfile /\ hd.index + 1 = gen.hfile
    /\ fault \in DOMAIN PartialFaults /\ hd.handle.some =>
         /\ \A f \in 1..(hd.handle.file - 1) : ~Partial(f)
         /\ gen.pc # "done"
         /\ gen.pc = "raised" /\ Partial(hd.handle.file) => <<gen.exc, gen.at>> \in PartialFaults[fault]

\* the first file ends one card into a header and a second file follows: the read
\* failed in the first file after its one block
C13_Witness ==
    /\ fault = "lone_card" /\ Len(disk) = 2 /\ Partial(1)
    /\ gen.pc = "raised" /\ gen.exc = "EOFError" /\ gen.at = 49
    /\ hd.handle.file = 1 /\ Len(out) = 1

(* C14, as claimed: a header card holding a non-ASCII byte, at whatever offset
   of its file (the first 321 bytes included), makes the header read fail
   with the RuntimeError raised from the UnicodeDecodeError and with no
   other error. *)
C14_DecodeFault ==
    fault = "non_ascii" /\ hd.handle.some /\ Partial(hd.handle.file) /\ Ended =>
        gen.pc = "raised" /\ gen.exc = "RuntimeError" /\ gen.at = 64

\* auto_init_GuppiRawHeader has returned
Dispatched == call.op = "auto_init" /\ call.done

\* the mapping's telescope is the string t
TelescopeIs(t) ==
    \E i \in 1..Len(call.header) :
        call.header[i].k = K_TELESCOP /\ call.header[i].v = StrVal(t)

(* C15: auto_init_GuppiRawHeader returns the ATA, COSMIC or MeerKAT variant
   for a mapping whose telescope identifier is that variant's, and the
   generic variant for every other mapping. *)
C15_Dispatch ==
    Dispatched =>
        /\ TelescopeIs(T_ATA) => call.result.variant = "GuppiRawAtaHeader"
        /\ TelescopeIs(T_COSMIC) => call.result.variant = "GuppiRawCosmicHeader"
        /\ TelescopeIs(T_MEERKAT) => call.result.variant = "GuppiRawMeerkatHeader"
        /\ ~(TelescopeIs(T_ATA) \/ TelescopeIs(T_COSMIC) \/ TelescopeIs(T_MEERKAT))
             => call.result.variant = "GuppiRawHeader"
        /\ call.result.entries = call.header

\* a header read from a file, its telescope MeerKAT, got the MeerKAT variant
C15_Witness ==
    /\ Dispatched /\ TelescopeIs(T_MEERKAT) /\ Len(call.header) > 1
    /\ call.result.variant = "GuppiRawMeerkatHeader"

\* the least multiple of 512 that is >= p
Aligned(p) == p + ((SectorLen - (p % SectorLen)) % SectorLen)

\* where a call of read_next_header, read_block or seek_past_block must leave the
\* handle, the region it passes ending at offset p
After(p) == IF call.in.dio THEN Aligned(p) ELSE p

(* C16: _seek_align_directio moves the position p forward by exactly
   (512 - p % 512) % 512, to the least multiple of 512 that is >= p;
   read_next_header, read_block and seek_past_block take this step exactly
   when the header's directio is true, and leave the position unadjusted
   when it is false. *)
C16_ReadAlignment ==
    /\ call.op = "_seek_align_directio" /\ call.done =>
         /\ call.result = Aligned(call.pos)
         /\ call.result % SectorLen = 0
         /\ call.result >= call.pos /\ call.result - call.pos < SectorLen
         /\ call.pos % SectorLen = 0 => call.result = call.pos
    /\ call.op = "read_next_header" /\ call.done =>
         /\ call.exc = "none"
         /\ directio(call.header) = call.in.dio
         /\ call.h.handle.pos = After(Len(call.file))
    /\ call.op = "block" /\ call.done =>
         /\ call.read.exc = "none" /\ call.skip.exc = "none"
         /\ call.read.h.handle.pos = After(call.start + blocksize(call.header))
         /\ call.skip.h.handle.pos = After(call.start + blocksize(call.header))

\* read_next_header on a directio header that starts at offset 1 skipped to the next sector
C16_Witness ==
    /\ call.op = "read_next_header" /\ call.done /\ call.in.dio /\ call.start = 1
    /\ call.h.handle.pos > Len(call.file) /\ call.h.handle.pos % SectorLen = 0

(* C19: at the start of a complete data block, seek_past_block(header) and
   read_block(header) leave the handle at the same offset, start + blocksize
   aligned up to 512 when directio, for nof_bits 4 and 8 alike, and neither
   changes the file index. *)
C19_SkipEqualsRead ==
    call.op = "block" /\ call.done /\ Len(call.file) >= call.start + blocksize(call.header) =>
        /\ nof_bits(call.header) \in {4, 8}
        /\ call.read.exc = "none" /\ call.skip.exc = "none"
        /\ call.skip.h.handle = call.read.h.handle
        /\ call.skip.h.handle.pos =
             (IF directio(call.header)
              THEN PadTo(call.start + blocksize(call.header), SectorLen)
              ELSE call.start + blocksize(call.header))
        /\ call.read.h.index = 0 /\ call.skip.h.index = 0
        /\ call.read.h.handle.file = 1 /\ call.skip.h.handle.file = 1

\* a 4-bit directio block at offset 640, both ways, with bytes after it
C19_Witness ==
    /\ call.op = "block" /\ call.done /\ call.in = In4Dio /\ call.start = 640
    /\ Len(call.file) > call.start + blocksize(call.header)
    /\ call.read.h.handle.pos = 1024 /\ call.skip.h.handle.pos = 1024

(* C17: a blocks() call on a handler that has iterated before, part-way or
   to the end, does not go on from the earlier file index and offset: its
   pairs are the blocks from the first block of the first file on, and the
   handle stands where that many blocks end. *)
C17_Restart ==
    iter >= 2 /\ CleanWrite /\ Supported(1) /\ gen.pc # "created" =>
        /\ IsPrefix(YieldedData, WrittenSamples)
        /\ gen.block_index = Len(out)
        /\ gen.pc = "suspended" =>
             /\ out # <<>>
             /\ hd.index + 1 = written[Len(out)].file
             /\ hd.handle.file = written[Len(out)].file
             /\ hd.handle.pos = written[Len(out)].end
        /\ Ended => gen.pc = "done" /\ Len(out) = Len(written)

\* the first iteration was left with its file open; the second one yielded every block
C17_Witness ==
    /\ iter = 2 /\ orphans = 1 /\ CleanWrite /\ Len(written) >= 2
    /\ gen.pc = "done" /\ Len(out) = Len(written)

\* read_next_header has returned the header of block k of the files write_to_file made
HeaderOf(k) ==
    /\ phase # "write" /\ fault = "none" /\ EveryFileWritten /\ OneShape(Len(written)) /\ Supported(1)
    /\ k = gen.block_index /\ k \in 1..Len(written) /\ gen.hexc = "none"

(* C18, as claimed: for every file produced by write_to_file appends, the
   directio flag chosen per block (a directio block after a non-directio
   block included), read_next_header leaves the reader at the offset where
   the writer put that block's data, and read_block leaves it at the offset
   where the writer put the next header. *)
C18_PaddingAgrees ==
    \A k \in 1..Len(written) : HeaderOf(k) =>
        /\ gen.hfile = written[k].file
        /\ gen.hpos = written[k].dstart
        /\ gen.pc = "suspended" => hd.handle.pos = written[k].end

\* this step is the first next() of an iteration: lines 150-152 run in it
FirstNext == phase = "read" /\ gen.pc = "created" /\ gen'.pc # "created"

\* this step is a next() on the generator
Resumed ==
    /\ phase = "read" /\ gen.pc \in {"created", "suspended"}
    /\ gen' # gen /\ gen'.pc \notin {"created", "closed"}

\* the file index the step starts from
IndexBefore == IF FirstNext THEN 0 ELSE hd.index

\* the file the step starts on had no byte left: it is empty, or the handle is at its end
AtFileEnd ==
    IF FirstNext THEN hd.paths # <<>> /\ Len(disk[hd.paths[1]]) = 0
    ELSE hd.handle.some /\ hd.handle.pos >= Len(disk[hd.handle.file])

\* what every step of the handler keeps to
FileOrderStep ==
    /\ hd'.index \in {IndexBefore, IndexBefore + 1}
    /\ hd'.index \in 0..Len(hd'.paths)
    /\ hd'.handle.some /\ hd'.handle.open => hd'.handle.file = hd'.paths[hd'.index + 1]
    /\ phase = "read" /\ hd'.index = IndexBefore + 1 => AtFileEnd /\ (gen'.rolled \/ gen'.eof)
    /\ Resumed /\ gen'.rolled => hd'.index = IndexBefore + 1
    /\ phase = "read" /\ hd'.index = IndexBefore /\ ~FirstNext => hd'.handle.file = hd.handle.file

(* C20: in a blocks() iteration the file index starts at 0, never decreases,
   grows by exactly 1 at a rollover and stays within 0..len(file list); the
   open file is always the one at the index, so the files are opened in
   list order, each at most once, and none before the one before it had
   reached its end at a header boundary. *)
C20_FileOrder == [][FileOrderStep]_vars

\* two files were read to the end: the index stands past the list, the last file closed
C20_Witness ==
    /\ fault = "none" /\ Len(disk) = 2 /\ hd.index = 2 /\ hd.handle.file = 2 /\ ~hd.handle.open
    /\ gen.pc = "done" /\ gen.eof /\ Len(out) = 2

====
